---- MODULE Spec2Model ----
(***************************************************************************)
(* Encounter Success Analysis Pipeline of the Hero Squad Optimizer: the    *)
(* analysis route (POST handler, model loader, feature extraction,         *)
(* heuristic scorer, recommendation composer, generative fallback).        *)
(*                                                                         *)
(* Numbers.  The scorer works in IEEE doubles on one-decimal weights and   *)
(* two-decimal multipliers.  Here weights are held in tenths and           *)
(* multipliers in hundredths, and the value handed to Math.round is the    *)
(* exact fraction num/den.  Away from a halfway value the double result    *)
(* rounds like the exact one; exactly halfway the accumulated rounding     *)
(* error of the double evaluation decides between the two neighbours       *)
(* (Dragon Fight, strength 3, agility 19, health 22, mana 5, dexterity 3,  *)
(* wisdom 7: exact 62.5, the double is 62.49999999999999 and Math.round    *)
(* gives 62).  That error is a parameter `low` of the scorer: the set of   *)
(* stat tuples whose halfway value comes out below the half.               *)
(***************************************************************************)
EXTENDS Integers, Sequences, FiniteSets, TLC

(***************************************************************************)
(* Bounds of the checked instances.                                        *)
(***************************************************************************)
\* Concurrent requests of the serving process.
NumReqs == 2
\* Longest party in a request body of the serving process.
MaxParty == 1
\* Longest party handed to the pure functions.
MaxMembers == 2
\* The middle and the largest attribute value handed to the pure functions.
AttrMid == 22
AttrMax == 200

\* The value of a property that is absent from a JSON object.
Undefined == "<undefined>"

Min(a, b) == IF a < b THEN a ELSE b
Max(a, b) == IF a > b THEN a ELSE b

(***************************************************************************)
(* Characters and encounters (interface Character, interface Encounter).   *)
(* A character is a record; mana, dexterity and wisdom are optional keys.  *)
(***************************************************************************)
RequiredStats == {"strength", "agility", "health"}
OptionalStats == {"mana", "dexterity", "wisdom"}
StatNames == RequiredStats \cup OptionalStats

\* `character[stat] || 0`: an absent (or zero) attribute counts as 0.
Num(character, stat) == IF stat \in DOMAIN character THEN character[stat] ELSE 0

\* The six attributes of a character as the scorer reads them.
Stats(character) ==
  << Num(character, "strength"), Num(character, "agility"),
     Num(character, "health"), Num(character, "mana"),
     Num(character, "dexterity"), Num(character, "wisdom") >>

KnownEvents == {"Dragon Fight", "Ancient Trap", "Mystic Puzzle"}
\* Every event_type a request can carry: the three known ones, some other
\* string, and no event_type at all.
EventTypes == KnownEvents \cup {"Goblin Ambush", Undefined}
Encounters == {[event_type |-> e] : e \in EventTypes}

ClassTags == {"Mage", "Barbarian", "Rogue", "Bandit", "Cleric"}

(***************************************************************************)
(* prepareDataForModel: the 14-value feature vector.                       *)
(***************************************************************************)
SumStatByLeader(party, stat) ==
  IF party = << >> THEN 0 ELSE Len(party) * Num(party[1], stat)

RECURSIVE SumStat(_, _)
\* party.reduce((sum, char) => sum + (char[stat] || 0), 0)
SumStat(party, stat) ==
  IF party = << >> THEN 0
  ELSE SumStat(SubSeq(party, 1, Len(party) - 1), stat)
         + Num(party[Len(party)], stat)

\* party.filter((c) => c.type === tag).length
CountType(party, tag) ==
  Cardinality({ i \in 1..Len(party) :
                  "type" \in DOMAIN party[i] /\ party[i].type = tag })

Flag(b) == IF b THEN 1 ELSE 0

prepareDataForModelTrainingSwapped(party, encounter) ==
  << Len(party),
     SumStat(party, "strength"), SumStat(party, "health"),
     SumStat(party, "agility"), SumStat(party, "dexterity"),
     SumStat(party, "mana"), SumStat(party, "wisdom"),
     CountType(party, "Mage"), CountType(party, "Barbarian"),
     CountType(party, "Rogue"), CountType(party, "Bandit"),
     Flag(encounter.event_type = "Dragon Fight"),
     Flag(encounter.event_type = "Ancient Trap"),
     Flag(encounter.event_type = "Mystic Puzzle") >>

\* prepareDataForModel of the training script (scripts/train-model.ts).
prepareDataForModelTraining(party, encounter) ==
  LET totalStrength == SumStat(party, "strength")
      totalHealth == SumStat(party, "health")
      totalAgility == SumStat(party, "agility")
      totalMana == SumStat(party, "mana")
      totalDexterity == SumStat(party, "dexterity")
      totalWisdom == SumStat(party, "wisdom")
      numMages == CountType(party, "Mage")
      numBarbarians == CountType(party, "Barbarian")
      numRogues == CountType(party, "Rogue")
      numBandits == CountType(party, "Bandit")
      isDragonFight == Flag(encounter.event_type = "Dragon Fight")
      isAncientTrap == Flag(encounter.event_type = "Ancient Trap")
      isMysticPuzzle == Flag(encounter.event_type = "Mystic Puzzle")
  IN  << Len(party), totalStrength, totalHealth, totalAgility, totalMana,
         totalDexterity, totalWisdom, numMages, numBarbarians, numRogues,
         numBandits, isDragonFight, isAncientTrap, isMysticPuzzle >>

prepareDataForModelSwapped(party, encounter) ==
  << Len(party),
     SumStat(party, "strength"), SumStat(party, "agility"),
     SumStat(party, "health"), SumStat(party, "mana"),
     SumStat(party, "dexterity"), SumStat(party, "wisdom"),
     CountType(party, "Mage"), CountType(party, "Barbarian"),
     CountType(party, "Rogue"), CountType(party, "Bandit"),
     Flag(encounter.event_type = "Dragon Fight"),
     Flag(encounter.event_type = "Ancient Trap"),
     Flag(encounter.event_type = "Mystic Puzzle") >>

prepareDataForModel(party, encounter) ==
  << Len(party),
     SumStat(party, "strength"), SumStat(party, "health"),
     SumStat(party, "agility"), SumStat(party, "mana"),
     SumStat(party, "dexterity"), SumStat(party, "wisdom"),
     CountType(party, "Mage"), CountType(party, "Barbarian"),
     CountType(party, "Rogue"), CountType(party, "Bandit"),
     Flag(encounter.event_type = "Dragon Fight"),
     Flag(encounter.event_type = "Ancient Trap"),
     Flag(encounter.event_type = "Mystic Puzzle") >>

(***************************************************************************)
(* The heuristic scorer.                                                   *)
(***************************************************************************)
\* getStatWeights, in tenths.
getStatWeights(eventType) ==
  CASE eventType = "Dragon Fight" ->
         [strength |-> 13, health |-> 12, agility |-> 11,
          mana |-> 11, dexterity |-> 10, wisdom |-> 9]
    [] eventType = "Ancient Trap" ->
         [dexterity |-> 14, agility |-> 13, wisdom |-> 12,
          health |-> 10, mana |-> 9, strength |-> 8]
    [] eventType = "Mystic Puzzle" ->
         [wisdom |-> 15, mana |-> 13, dexterity |-> 10,
          agility |-> 9, health |-> 8, strength |-> 7]
    [] OTHER ->
         [strength |-> 10, agility |-> 10, health |-> 10,
          mana |-> 10, dexterity |-> 10, wisdom |-> 10]

\* Object.values(weights).reduce((sum, weight) => sum + weight, 0), in tenths.
totalWeight(weights) ==
  weights.strength + weights.agility + weights.health
    + weights.mana + weights.dexterity + weights.wisdom

getDifficultyMultiplierFlat(eventType) == 100

\* getDifficultyMultiplier, in hundredths.
getDifficultyMultiplier(eventType) ==
  CASE eventType = "Dragon Fight" -> 85
    [] eventType = "Ancient Trap" -> 90
    [] eventType = "Mystic Puzzle" -> 100
    [] OTHER -> 95

getEncounterDifficultyShifted(eventType) ==
  CASE eventType = "Dragon Fight" -> "Hard"
    [] eventType = "Ancient Trap" -> "Medium"
    [] eventType = "Mystic Puzzle" -> "Easy"
    [] eventType = Undefined -> "Easy"
    [] OTHER -> "Unknown"

getEncounterDifficulty(eventType) ==
  CASE eventType = "Dragon Fight" -> "Hard"
    [] eventType = "Ancient Trap" -> "Medium"
    [] eventType = "Mystic Puzzle" -> "Easy"
    [] OTHER -> "Unknown"

getRecommendedActionInclusive(character, eventType) ==
  LET str  == character.strength
      agi  == character.agility
      dex  == Num(character, "dexterity")
      wis  == Num(character, "wisdom")
      mana == Num(character, "mana")
  IN CASE eventType = "Dragon Fight" ->
            IF str >= 15 THEN "Power Attack"
            ELSE IF mana >= 15 THEN "Cast Fireball"
            ELSE IF agi >= 15 THEN "Dodge and Weave"
            ELSE "Defensive Stance"
       [] eventType = "Ancient Trap" ->
            IF dex >= 15 THEN "Disarm Trap"
            ELSE IF wis >= 15 THEN "Analyze Mechanism"
            ELSE IF agi >= 15 THEN "Evade Pressure Plate"
            ELSE "Provide Lookout"
       [] eventType = "Mystic Puzzle" ->
            IF wis >= 15 THEN "Decipher Runes"
            ELSE IF mana >= 15 THEN "Channel Insight"
            ELSE IF dex >= 10 THEN "Manipulate Artifact"
            ELSE "Observe Patterns"
       [] OTHER -> "Take Action"

getRecommendedAction(character, eventType) ==
  LET str  == character.strength
      agi  == character.agility
      dex  == Num(character, "dexterity")
      wis  == Num(character, "wisdom")
      mana == Num(character, "mana")
  IN CASE eventType = "Dragon Fight" ->
            IF str > 15 THEN "Power Attack"
            ELSE IF mana > 15 THEN "Cast Fireball"
            ELSE IF agi > 15 THEN "Dodge and Weave"
            ELSE "Defensive Stance"
       [] eventType = "Ancient Trap" ->
            IF dex > 15 THEN "Disarm Trap"
            ELSE IF wis > 15 THEN "Analyze Mechanism"
            ELSE IF agi > 15 THEN "Evade Pressure Plate"
            ELSE "Provide Lookout"
       [] eventType = "Mystic Puzzle" ->
            IF wis > 15 THEN "Decipher Runes"
            ELSE IF mana > 15 THEN "Channel Insight"
            ELSE IF dex > 10 THEN "Manipulate Artifact"
            ELSE "Observe Patterns"
       [] OTHER -> "Take Action"

\* charTotalWeighted, in tenths.
charTotalWeighted(character, weights) ==
  Num(character, "strength") * weights.strength
    + Num(character, "agility") * weights.agility
    + Num(character, "health") * weights.health
    + Num(character, "mana") * weights.mana
    + Num(character, "dexterity") * weights.dexterity
    + Num(character, "wisdom") * weights.wisdom

\* The denominator of charSuccessRate: totalWeight * 15, times the 100 of the
\* multiplier's hundredths (the tenths of the two weight sums cancel).
RateDen(eventType) == totalWeight(getStatWeights(eventType)) * 15 * 100

charSuccessRateNoCap(character, eventType) ==
  Max(15 * RateDen(eventType),
      20 * RateDen(eventType)
        + charTotalWeighted(character, getStatWeights(eventType)) * 75
            * getDifficultyMultiplier(eventType))

\* charSuccessRate = Math.min(95, Math.max(15, 20 + charBaseRate * 75 *
\* difficultyMultiplier)), as the numerator over RateDen(eventType).
charSuccessRate(character, eventType) ==
  Min(95 * RateDen(eventType),
      Max(15 * RateDen(eventType),
          20 * RateDen(eventType)
            + charTotalWeighted(character, getStatWeights(eventType)) * 75
                * getDifficultyMultiplier(eventType)))

\* The exact value num/den lies halfway between two integers.
Halfway(num, den) == (2 * num + den) % (2 * den) = 0

\* Math.round of the exact value num/den (halves round up).
MathRound(num, den) == (2 * num + den) \div (2 * den)

\* The stat tuples of the party whose exact rate is a halfway value: the
\* inputs on which the double evaluation decides the rounding.
HalfwayStats(party, eventType) ==
  {Stats(party[i]) : i \in
     {j \in 1..Len(party) :
        Halfway(charSuccessRate(party[j], eventType), RateDen(eventType))}}

\* Math.round(charSuccessRate) as the double evaluation gives it.
success_rate(character, eventType, low) ==
  LET num == charSuccessRate(character, eventType)
      den == RateDen(eventType)
  IN IF Halfway(num, den) /\ Stats(character) \in low
     THEN MathRound(num, den) - 1
     ELSE MathRound(num, den)

(***************************************************************************)
(* The recommendation composer.                                            *)
(***************************************************************************)
RECURSIVE BestUpToLast(_, _, _)
BestUpToLast(party, stat, n) ==
  IF n = 1 THEN party[1]
  ELSE LET best == BestUpToLast(party, stat, n - 1)
           char == party[n]
       IN IF Num(char, stat) >= Num(best, stat) THEN char ELSE best

RECURSIVE BestUpTo(_, _, _)
\* The accumulator of party.reduce((best, char) => (char[stat] || 0) >
\* (best[stat] || 0) ? char : best) after the first n members; the reduce has
\* no initial value, so it starts from the first member.
BestUpTo(party, stat, n) ==
  IF n = 1 THEN party[1]
  ELSE LET best == BestUpTo(party, stat, n - 1)
           char == party[n]
       IN IF Num(char, stat) > Num(best, stat) THEN char ELSE best

\* findBest(stat), for a party with a member.
findBest(party, stat) == BestUpTo(party, stat, Len(party))

\* findBest on the empty party: reduce of an empty array with no initial
\* value throws a TypeError.
findBestThrows(party) == Len(party) = 0

TierCommentInclusive(successChance) ==
  IF successChance <= 40
  THEN "This is a highly challenging encounter. Survival should be the top priority; focus on defensive abilities and healing."
  ELSE IF successChance >= 75
  THEN "Your party has a clear advantage. A coordinated, aggressive strategy should secure a swift victory."
  ELSE "The odds are balanced. A smart, tactical approach combining offense and defense is crucial for success."

\* The first recommendation, by the success chance.
TierComment(successChance) ==
  IF successChance < 40
  THEN "This is a highly challenging encounter. Survival should be the top priority; focus on defensive abilities and healing."
  ELSE IF successChance > 75
  THEN "Your party has a clear advantage. A coordinated, aggressive strategy should secure a swift victory."
  ELSE "The odds are balanced. A smart, tactical approach combining offense and defense is crucial for success."

\* generateRecommendations throws exactly when a case of its switch calls
\* findBest on the empty party.
generateRecommendationsThrows(party, encounter) ==
  encounter.event_type \in KnownEvents /\ findBestThrows(party)

\* generateRecommendations, when it returns.
generateRecommendations(party, encounter, successChance) ==
  << TierComment(successChance) >> \o
  ( CASE encounter.event_type = "Dragon Fight" ->
           LET tank == findBest(party, "health")
               strongest == findBest(party, "strength")
           IN << "Let " \o tank.name
                   \o " draw the dragon's attention while others attack from the flanks.",
                 strongest.name
                   \o " should focus on dealing maximum physical damage." >>
      [] encounter.event_type = "Ancient Trap" ->
           LET nimble == findBest(party, "dexterity")
               wiseTrap == findBest(party, "wisdom")
           IN << nimble.name
                   \o " should take the lead to scout for and disarm any traps." >>
              \o ( IF wiseTrap.name # nimble.name
                   THEN << wiseTrap.name
                             \o " can assist by spotting the trap mechanisms from a distance." >>
                   ELSE << >> )
      [] encounter.event_type = "Mystic Puzzle" ->
           LET wise == findBest(party, "wisdom")
               mage == findBest(party, "mana")
           IN << "The party should rely on " \o wise.name
                   \o "'s wisdom to solve the core puzzle." >>
              \o ( IF mage.name # wise.name
                   THEN << mage.name
                             \o " could use their mana to reveal hidden clues or magical auras." >>
                   ELSE << >> )
      [] OTHER -> << >> )

\* getWeightedAnalysis throws exactly when generateRecommendations does (the
\* map over the party has run by then and has no effect of its own).
getWeightedAnalysisThrows(party, encounter) ==
  generateRecommendationsThrows(party, encounter)

getWeightedAnalysisBlended(party, encounter, partySuccessChance, low) ==
  [ individual_success_rates |->
      [ i \in 1..Len(party) |->
          [ character |-> party[i].name,
            success_rate |->
              Min(success_rate(party[i], encounter.event_type, low),
                  partySuccessChance + 50),
            recommended_action |->
              getRecommendedAction(party[i], encounter.event_type) ] ],
    strategic_recommendations |->
      generateRecommendations(party, encounter, partySuccessChance) ]

\* getWeightedAnalysis, when it returns.
getWeightedAnalysis(party, encounter, partySuccessChance, low) ==
  [ individual_success_rates |->
      [ i \in 1..Len(party) |->
          [ character |-> party[i].name,
            success_rate |-> success_rate(party[i], encounter.event_type, low),
            recommended_action |->
              getRecommendedAction(party[i], encounter.event_type) ] ],
    strategic_recommendations |->
      generateRecommendations(party, encounter, partySuccessChance) ]

(***************************************************************************)
(* The generative turn actions and their fallback.                         *)
(***************************************************************************)
DodgeDefault == "Default: Take the 'Dodge' action."

fallbackActionsAlways(character, eventType) ==
  << "Primary: " \o getRecommendedAction(character, eventType),
     "Alternative: Use a defensive maneuver.",
     DodgeDefault >>

fallbackActionsBare(character, eventType) ==
  << "Primary: " \o getRecommendedAction(character, eventType) >>

fallbackActions(character, eventType) ==
  << "Primary: " \o getRecommendedAction(character, eventType) >>
  \o ( IF eventType = "Dragon Fight"
       THEN << "Alternative: Use a defensive maneuver." >>
       ELSE IF eventType = "Ancient Trap"
       THEN << "Alternative: Search the area for triggers." >>
       ELSE << >> )
  \o << DodgeDefault >>

\* What one call of genaiModel.generateContent can come to: the call rejects
\* (or result.response.text() throws), the text is not JSON, the text parses
\* to something that is no array, or it parses to an array.
GenArrays ==
  { << >>,
    << "Primary: Rage and strike.", "Alternative: Shove the foe.",
       "Defensive: Brace behind the shield." >>,
    << "one", "two", "three", "four" >> }
GenOutcomes ==
  { [kind |-> "rejects", items |-> << >>],
    [kind |-> "notJSON", items |-> << >>],
    [kind |-> "notArray", items |-> << >>] }
  \cup { [kind |-> "array", items |-> a] : a \in GenArrays }

\* generateTurnSpecificActions, given what the generative call came to: the
\* parsed array as it is, the fallback on a rejection (catch), on text that
\* JSON.parse rejects (catch) and on a parsed value that is no array.
generateTurnSpecificActions(character, eventType, outcome) ==
  IF outcome.kind = "array"
  THEN outcome.items
  ELSE fallbackActions(character, eventType)

(***************************************************************************)
(* The serving process: the module state and the requests in flight.       *)
(***************************************************************************)
VARIABLES
  modelPromise,  \* "unevaluated", "pending", "model" (resolved to the loaded
                 \* model) or "null" (resolved to null: the load failed)
  loadRuns,      \* how many times the loader has been started
  req,           \* per request: where its POST call stands, and its locals
  call,          \* the arguments of a direct call of a pure function
  ret,           \* what that call returned
  ui             \* the browser page: its React state and its fetches in flight

vars == << modelPromise, loadRuns, req, call, ret, ui >>

Reqs == 1..NumReqs

\* The party of the specification's first end-to-end scenario, and a member
\* that carries no optional attribute.
Thane == [name |-> "Thane", type |-> "Barbarian", strength |-> 25,
          agility |-> 10, health |-> 25, mana |-> 5, dexterity |-> 10,
          wisdom |-> 5]
Bran == [name |-> "Bran", type |-> "Bandit", strength |-> 15,
         agility |-> 20, health |-> 15]
Roster == {Thane, Bran}

RECURSIVE SeqsUpTo(_, _)
\* The sequences over S of length at most n.
SeqsUpTo(S, n) ==
  IF n = 0 THEN { << >> }
  ELSE LET shorter == SeqsUpTo(S, n - 1)
       IN shorter \cup {Append(p, c) : p \in shorter, c \in S}

ServerParties == SeqsUpTo(Roster, MaxParty)

\* A top-level field of the body is << >> when the key is absent (or holds
\* null, 0, false: every value `!` negates to true but the empty string,
\* which the turn field carries as itself) and << value >> otherwise.
Bodies ==
  { [kind |-> "null"], [kind |-> "scalar"] }
  \cup { [kind |-> "object", party |-> p, encounter |-> e,
          current_turn_character |-> c] :
           p \in { << >> } \cup { << x >> : x \in ServerParties },
           e \in { << >> } \cup { << x >> : x \in Encounters },
           c \in { << >>, << "" >>, << "Thane" >>, << "Nobody" >> } }

\* successChanceArray[0], in thousandths.
Predictions == {394, 395, 750, 755}

\* Math.round(successChanceArray[0] * 100)
Percent(prediction) == (prediction + 5) \div 10

DefaultChance == 50

NoWeighted ==
  [individual_success_rates |-> << >>, strategic_recommendations |-> << >>]
NoResponse == [status |-> 0, body |-> [pending |-> TRUE]]

IdleRequest ==
  [ pc |-> "idle", body |-> [kind |-> "unread"], model |-> "unset",
    inputVector |-> << >>, finalSuccessChance |-> -1,
    weightedAnalysis |-> NoWeighted, currentCharacter |-> << >>,
    turnActions |-> << >>, genOutcome |-> "none", genCalls |-> 0,
    extractions |-> 0, predictions |-> 0, tensors |-> {},
    thrown |-> "none", response |-> NoResponse ]

BadRequest ==
  [ status |-> 400,
    body |-> [error |->
      "Missing required fields: party, encounter, current_turn_character"] ]

InternalErrorLeaky(q, error) ==
  [q EXCEPT !.pc = "done", !.thrown = error,
            !.response = [status |-> 500, body |-> [error |-> error]]]

\* The catch of POST: whatever was thrown, the fixed 500 response.
InternalError(q, error) ==
  [q EXCEPT !.pc = "done", !.thrown = error,
            !.response =
              [ status |-> 500,
                body |-> [error |-> "Failed to analyze party composition"] ]]

\* !body.party || !body.encounter || !body.current_turn_character, for a body
\* that is not null.
MissingFields(body) ==
  \/ body.kind # "object"
  \/ body.party = << >>
  \/ body.encounter = << >>
  \/ body.current_turn_character \in { << >>, << "" >> }

\* POST from the body that request.json() resolved to, up to the first await
\* of the analysis (await modelPromise).
POSTBody(q) ==
  IF q.body.kind = "null"
  THEN InternalError(q, "TypeError: Cannot read properties of null")
  ELSE IF MissingFields(q.body)
  THEN [q EXCEPT !.pc = "done", !.response = BadRequest]
  ELSE [q EXCEPT !.pc = "model"]

Party(q) == q.body.party[1]
Encounter(q) == q.body.encounter[1]
TurnName(q) == q.body.current_turn_character[1]

\* The return of analyzePartyVsEncounter and of POST after it.
Return(q) ==
  [q EXCEPT
     !.pc = "done",
     !.response =
       [ status |-> 200,
         body |->
           [ success |-> TRUE,
             analysis |->
               [ party_success_chance |-> q.finalSuccessChance,
                 individual_success_rates |->
                   q.weightedAnalysis.individual_success_rates,
                 encounter_difficulty |->
                   getEncounterDifficulty(Encounter(q).event_type),
                 strategic_recommendations |->
                   q.weightedAnalysis.strategic_recommendations,
                 current_turn_actions |-> q.turnActions ] ] ]]

\* party.find((char) => char.name === currentTurnCharacterName): the first
\* member of that name, << >> for undefined.
currentCharacter(party, name) ==
  LET hits == {i \in 1..Len(party) : party[i].name = name}
  IN IF hits = {} THEN << >>
     ELSE << party[CHOOSE i \in hits : \A j \in hits : i <= j] >>

\* analyzePartyVsEncounter from the success chance on, up to the generative
\* call (await generateTurnSpecificActions) or, without one, to the return.
Analyze(q, chance, low) ==
  LET q1 == [q EXCEPT !.finalSuccessChance = chance]
  IN IF getWeightedAnalysisThrows(Party(q), Encounter(q))
     THEN InternalError(q1,
            "TypeError: Reduce of empty array with no initial value")
     ELSE LET q2 == [q1 EXCEPT !.weightedAnalysis =
                       getWeightedAnalysis(Party(q), Encounter(q), chance, low)]
              found == currentCharacter(Party(q), TurnName(q))
          IN IF found # << >>
             THEN [q2 EXCEPT !.currentCharacter = found,
                             !.genCalls = @ + 1,
                             !.pc = "genai"]
             ELSE Return(q2)

LoaderRunsOnAwaitRetry(promise) == IF promise = "null" THEN 1 ELSE 0

\* Loader runs started by `await modelPromise`: none, the promise is the one
\* the module made when it was evaluated.
LoaderRunsOnAwait(promise) == 0

\* No page is open.
NoUI == [section |-> "closed"]

NoCall == [party |-> << >>, encounter |-> [event_type |-> Undefined], low |-> {}]
NoRet == [fn |-> "none", threw |-> FALSE, vector |-> << >>,
          analysis |-> NoWeighted]

\* The process before the route module is evaluated.
Init ==
  /\ modelPromise = "unevaluated"
  /\ loadRuns = 0
  /\ req = [r \in Reqs |-> IdleRequest]
  /\ call = NoCall
  /\ ret = NoRet
  /\ ui = NoUI

\* Module evaluation: the async function expression behind modelPromise is
\* called on the spot and starts tf.loadLayersModel.
ModuleEval ==
  /\ modelPromise = "unevaluated"
  /\ modelPromise' = "pending"
  /\ loadRuns' = loadRuns + 1
  /\ UNCHANGED << req, call, ret, ui >>

\* tf.loadLayersModel resolves: modelPromise resolves to the model.
LoadSucceeds ==
  /\ modelPromise = "pending"
  /\ modelPromise' = "model"
  /\ UNCHANGED << loadRuns, req, call, ret, ui >>

\* fileSystemLoadHandler or tf.loadLayersModel throws: the catch returns null.
LoadFails ==
  /\ modelPromise = "pending"
  /\ modelPromise' = "null"
  /\ UNCHANGED << loadRuns, req, call, ret, ui >>

\* POST is called and awaits request.json().
Receive(r) ==
  /\ modelPromise # "unevaluated"
  /\ req[r].pc = "idle"
  /\ req' = [req EXCEPT ![r].pc = "json"]
  /\ UNCHANGED << modelPromise, loadRuns, call, ret, ui >>

\* request.json() rejects: the body is no JSON text.
JsonRejects(r) ==
  /\ req[r].pc = "json"
  /\ req' = [req EXCEPT ![r] =
               InternalError(@, "SyntaxError: Unexpected token in JSON")]
  /\ UNCHANGED << modelPromise, loadRuns, call, ret, ui >>

\* request.json() resolves: validation, then the analysis up to its await of
\* modelPromise.
JsonResolves(r) ==
  /\ req[r].pc = "json"
  /\ \E body \in Bodies :
       req' = [req EXCEPT ![r] = POSTBody([@ EXCEPT !.body = body])]
  /\ UNCHANGED << modelPromise, loadRuns, call, ret, ui >>

\* getTFJSAnalysis resumes with model = null: the default, then the rest of
\* analyzePartyVsEncounter up to its next await.
ModelUnavailable(r) ==
  /\ req[r].pc = "model"
  /\ modelPromise = "null"
  /\ \E low \in SUBSET HalfwayStats(Party(req[r]), Encounter(req[r]).event_type) :
       req' = [req EXCEPT ![r] =
                 Analyze([@ EXCEPT !.model = "null"], DefaultChance, low)]
  /\ loadRuns' = loadRuns + LoaderRunsOnAwait(modelPromise)
  /\ UNCHANGED << modelPromise, call, ret, ui >>

\* getTFJSAnalysis resumes with the model: feature extraction, the input
\* tensor, model.predict, and the await of prediction.data().
Predict(r) ==
  /\ req[r].pc = "model"
  /\ modelPromise = "model"
  /\ req' = [req EXCEPT
               ![r].model = "model",
               ![r].inputVector =
                 prepareDataForModel(Party(req[r]), Encounter(req[r])),
               ![r].extractions = @ + 1,
               ![r].predictions = @ + 1,
               ![r].tensors = {"inputTensor", "prediction"},
               ![r].pc = "data"]
  /\ loadRuns' = loadRuns + LoaderRunsOnAwait(modelPromise)
  /\ UNCHANGED << modelPromise, call, ret, ui >>

\* The same, with model.predict throwing: the input tensor exists, no
\* prediction tensor does, and the dispose calls are not reached.
PredictThrows(r) ==
  /\ req[r].pc = "model"
  /\ modelPromise = "model"
  /\ req' = [req EXCEPT ![r] =
               InternalError(
                 [@ EXCEPT !.model = "model",
                           !.inputVector =
                             prepareDataForModel(Party(req[r]), Encounter(req[r])),
                           !.extractions = @ + 1,
                           !.predictions = @ + 1,
                           !.tensors = {"inputTensor"}],
                 "Error: model.predict failed")]
  /\ loadRuns' = loadRuns + LoaderRunsOnAwait(modelPromise)
  /\ UNCHANGED << modelPromise, call, ret, ui >>

\* prediction.data() resolves: both tensors are disposed, then the rounded
\* percentage and the rest of analyzePartyVsEncounter up to its next await.
DataResolves(r) ==
  /\ req[r].pc = "data"
  /\ \E p \in Predictions,
        low \in SUBSET HalfwayStats(Party(req[r]), Encounter(req[r]).event_type) :
       req' = [req EXCEPT ![r] =
                 Analyze([@ EXCEPT !.tensors = {}], Percent(p), low)]
  /\ UNCHANGED << modelPromise, loadRuns, call, ret, ui >>

\* prediction.data() rejects: the dispose calls after the await are skipped.
DataRejects(r) ==
  /\ req[r].pc = "data"
  /\ req' = [req EXCEPT ![r] =
               InternalError(@, "Error: prediction.data() failed")]
  /\ UNCHANGED << modelPromise, loadRuns, call, ret, ui >>

\* The generative call comes back (or fails): the turn actions, the return
\* of analyzePartyVsEncounter and the success response.
GenAnswers(r) ==
  /\ req[r].pc = "genai"
  /\ \E outcome \in GenOutcomes :
       req' = [req EXCEPT ![r] =
                 Return([@ EXCEPT
                           !.genOutcome = outcome.kind,
                           !.turnActions =
                             generateTurnSpecificActions(
                               req[r].currentCharacter[1],
                               Encounter(req[r]).event_type, outcome)])]
  /\ UNCHANGED << modelPromise, loadRuns, call, ret, ui >>

Next ==
  \/ ModuleEval
  \/ LoadSucceeds
  \/ LoadFails
  \/ \E r \in Reqs :
       \/ Receive(r)
       \/ JsonRejects(r)
       \/ JsonResolves(r)
       \/ ModelUnavailable(r)
       \/ Predict(r)
       \/ PredictThrows(r)
       \/ DataResolves(r)
       \/ DataRejects(r)
       \/ GenAnswers(r)

Spec == Init /\ [][Next]_vars

(***************************************************************************)
(* Direct calls of the pure functions, on inputs drawn at the start.       *)
(***************************************************************************)
AttrVals == {0, AttrMid, AttrMax}

\* The optional attributes of a character: any of the three keys, absent or
\* present.
OptionalParts ==
  UNION { [keys -> {0, AttrMax}] : keys \in SUBSET OptionalStats }

\* The first member of a party: every class tag with every attribute block.
FnChars ==
  { [name |-> "Ada", type |-> t, strength |-> s, agility |-> a, health |-> h]
      @@ o :
      t \in ClassTags, s \in AttrVals, a \in AttrVals, h \in AttrVals,
      o \in OptionalParts }

\* The members after the first: the roster, and a namesake of the first.
\* A member whose attributes equal the values the first member takes.
Mira ==
  [ name |-> "Mira", type |-> "Cleric",
    strength |-> AttrMid, agility |-> AttrMid, health |-> AttrMid,
    mana |-> AttrMax, dexterity |-> 0, wisdom |-> AttrMax ]

Mates ==
  Roster \cup { [Thane EXCEPT !.name = "Ada", !.type = "Mage"], Mira }

FnParties ==
  { << >> }
  \cup { << c >> \o rest : c \in FnChars, rest \in SeqsUpTo(Mates, MaxMembers - 1) }

ChanceVals == {39, 40, DefaultChance, 75, 76}

InitFn ==
  /\ modelPromise = "unevaluated"
  /\ loadRuns = 0
  /\ req = [r \in Reqs |-> IdleRequest]
  /\ \E party \in FnParties, encounter \in Encounters :
       \E low \in SUBSET HalfwayStats(party, encounter.event_type) :
         call = [party |-> party, encounter |-> encounter, low |-> low]
  /\ ret = NoRet
  /\ ui = NoUI

CallPrepareDataForModel ==
  /\ ret.fn = "none"
  /\ ret' = [NoRet EXCEPT
               !.fn = "prepareDataForModel",
               !.vector = prepareDataForModel(call.party, call.encounter)]
  /\ UNCHANGED << modelPromise, loadRuns, req, call, ui >>

\* The training script extracts the features of the same input.
CallPrepareDataForModelTraining ==
  /\ ret.fn = "none"
  /\ ret' = [NoRet EXCEPT
               !.fn = "prepareDataForModel (training)",
               !.vector = prepareDataForModelTraining(call.party, call.encounter)]
  /\ UNCHANGED << modelPromise, loadRuns, req, call, ui >>

CallGetWeightedAnalysis ==
  /\ ret.fn = "none"
  /\ \E chance \in ChanceVals :
       ret' = IF getWeightedAnalysisThrows(call.party, call.encounter)
              THEN [NoRet EXCEPT !.fn = "getWeightedAnalysis", !.threw = TRUE]
              ELSE [NoRet EXCEPT
                      !.fn = "getWeightedAnalysis",
                      !.analysis =
                        getWeightedAnalysis(call.party, call.encounter,
                                            chance, call.low)]
  /\ UNCHANGED << modelPromise, loadRuns, req, call, ui >>

NextFn ==
  \/ CallPrepareDataForModel
  \/ CallPrepareDataForModelTraining
  \/ CallGetWeightedAnalysis

SpecFn == InitFn /\ [][NextFn]_vars

(***************************************************************************)
(* The browser page (src/app/page.tsx): HomePage with the party editor     *)
(* (PartySection), the event list (EventsSection) and the adventure screen *)
(* (AdventureScreen).  A component's state exists while it is mounted: it  *)
(* is made from the props when the component mounts and is gone when it    *)
(* unmounts.  The alert dialog is modal: while it is open the page under   *)
(* it takes no input.                                                      *)
(***************************************************************************)
\* classData[...].baseStats
classData ==
  [ Barbarian |-> [strength |-> 25, agility |-> 10, mana |-> 5,
                   dexterity |-> 10, wisdom |-> 5, health |-> 25],
    Mage      |-> [strength |-> 5, agility |-> 10, mana |-> 25,
                   dexterity |-> 10, wisdom |-> 25, health |-> 5],
    Rogue     |-> [strength |-> 10, agility |-> 25, mana |-> 5,
                   dexterity |-> 25, wisdom |-> 10, health |-> 5],
    Bandit    |-> [strength |-> 15, agility |-> 20, mana |-> 5,
                   dexterity |-> 20, wisdom |-> 5, health |-> 15] ]

\* The event cards.
events == {"Dragon Fight", "Ancient Trap", "Mystic Puzzle"}

\* What the user types and selects.
PartyNames == {" ", "Heroes"}
CharacterNames == {"Thane", "Bran"}
ClassChoices == {"Barbarian", "Rogue"}
StatFields == {"strength", "wisdom"}
StatTexts == {"", "0", "-5", "26"}
Ids == {"k3x9", "p7q2"}

\* String.prototype.trim on the texts above.
trim(text) == IF text \in {"", " "} THEN "" ELSE text

\* Number.parseInt on the texts above: << >> for NaN.
parseInt(text) ==
  CASE text = "0" -> << 0 >>
    [] text = "-5" -> << -5 >>
    [] text = "26" -> << 26 >>
    [] OTHER -> << >>

\* Number.parseInt(e.target.value) || 1
ParsedOrOne(text) ==
  IF parseInt(text) = << >> \/ parseInt(text) = << 0 >> THEN 1
  ELSE parseInt(text)[1]

\* createNewCharacter, with the id that Math.random gave.
createNewCharacter(id, charClass) ==
  [id |-> id, name |-> "", class |-> charClass] @@ classData[charClass]

\* handleMemberCountChange: the first count characters, a new Mage for every
\* position that has none.
handleMemberCountChange(characters, count, ids) ==
  [ i \in 1..count |->
      IF i <= Len(characters) THEN characters[i]
      ELSE createNewCharacter(ids[i], "Mage") ]

\* updateCharacterStat
updateCharacterStat(characters, index, field, value) ==
  [characters EXCEPT ![index] = [@ EXCEPT ![field] = value]]

handleCharacterClassChangeKeepStats(characters, index, newClass) ==
  [characters EXCEPT ![index] = [@ EXCEPT !.class = newClass]]

\* handleCharacterClassChange: { ...old, class: newClass, ...baseStats }
handleCharacterClassChange(characters, index, newClass) ==
  [characters EXCEPT
     ![index] = classData[newClass] @@ [class |-> newClass] @@ @]

getTotalPoints(character) ==
  character.strength + character.agility + character.mana
    + character.dexterity + character.wisdom + character.health

isValidPointAllocationLoose(character) == getTotalPoints(character) <= 101

isValidPointAllocation(character) == getTotalPoints(character) <= 80

\* The alert dialog state.
NoAlert == [isOpen |-> FALSE, title |-> "", onConfirm |-> FALSE]
Alert(title) == [isOpen |-> TRUE, title |-> title, onConfirm |-> FALSE]

savePartyAlertNameless(partyName, characters) ==
  IF \E i \in 1..Len(characters) : trim(characters[i].name) = ""
  THEN "Character Name Required"
  ELSE IF \E i \in 1..Len(characters) : ~isValidPointAllocation(characters[i])
  THEN "Invalid Point Allocation"
  ELSE ""

\* Which alert saveParty opens, "" when it saves.
savePartyAlert(partyName, characters) ==
  IF trim(partyName) = "" THEN "Party Name Required"
  ELSE IF \E i \in 1..Len(characters) : trim(characters[i].name) = ""
  THEN "Character Name Required"
  ELSE IF \E i \in 1..Len(characters) : ~isValidPointAllocation(characters[i])
  THEN "Invalid Point Allocation"
  ELSE ""

\* How many editor inputs (typing, selecting) a session makes at most.
MaxEdits == 4
\* The member counts on offer are 1..MaxCount.
MaxCount == 2
\* How many fetches are in flight at most.
MaxFetches == 2

\* PartySection's state at mount, from the party prop.
MountEditor(party) ==
  << [ partyName |-> IF party = << >> THEN "" ELSE party[1].name,
       memberCount |-> IF party = << >> \/ Len(party[1].members) = 0
                       THEN 1 ELSE Len(party[1].members),
       characters |-> IF party = << >> THEN << >> ELSE party[1].members,
       isCreating |-> party = << >> ] >>

\* EventsSection's and AdventureScreen's state at mount.
MountEvents == << [selectedEvent |-> << >>, showAdventure |-> FALSE] >>
MountAdventure ==
  << [ isAnalyzing |-> FALSE, analysisResult |-> << >>,
       currentTurnCharacter |-> "", answered |-> << >> ] >>

\* The page when it is opened.
InitUI ==
  /\ modelPromise = "unevaluated"
  /\ loadRuns = 0
  /\ req = [r \in Reqs |-> IdleRequest]
  /\ call = NoCall
  /\ ret = NoRet
  /\ ui = [ currentSection |-> "home", party |-> << >>,
            alertDialog |-> NoAlert, editor |-> << >>,
            eventsSection |-> << >>, adventure |-> << >>,
            fetches |-> {}, edits |-> 0 ]

\* The page under the dialog takes input.
Usable == ~ui.alertDialog.isOpen

\* The editor form is rendered (not the saved party's cards).
FormShown ==
  /\ ui.currentSection = "party"
  /\ ui.editor[1].isCreating \/ ui.party = << >>

\* The adventure screen is rendered.
AdventureShown ==
  /\ ui.currentSection = "events"
  /\ ui.eventsSection[1].showAdventure
  /\ ui.eventsSection[1].selectedEvent # << >>

\* Fetches whose component has unmounted: their setState calls do nothing.
Abandoned(fetches) == { [f EXCEPT !.live = FALSE] : f \in fetches }

\* HomeSection: "Create Party" and "Choose Events".
GoToParty ==
  /\ Usable /\ ui.currentSection = "home"
  /\ ui' = [ui EXCEPT !.currentSection = "party",
                      !.editor = MountEditor(ui.party)]
  /\ UNCHANGED << modelPromise, loadRuns, req, call, ret >>

GoToEvents ==
  /\ Usable
  /\ \/ ui.currentSection = "home"
     \/ ui.currentSection = "party" /\ ~FormShown
  /\ ui' = [ui EXCEPT !.currentSection = "events", !.editor = << >>,
                      !.eventsSection = MountEvents]
  /\ UNCHANGED << modelPromise, loadRuns, req, call, ret >>

\* onBack of PartySection and of EventsSection.
BackToHome ==
  /\ Usable
  /\ \/ ui.currentSection = "party"
     \/ ui.currentSection = "events" /\ ~AdventureShown
  /\ ui' = [ui EXCEPT !.currentSection = "home", !.editor = << >>,
                      !.eventsSection = << >>]
  /\ UNCHANGED << modelPromise, loadRuns, req, call, ret >>

\* The party name input.
TypePartyName ==
  /\ Usable /\ FormShown /\ ui.edits < MaxEdits
  /\ \E text \in PartyNames \cup {""} :
       ui' = [ui EXCEPT !.editor[1].partyName = text, !.edits = @ + 1]
  /\ UNCHANGED << modelPromise, loadRuns, req, call, ret >>

\* The member count select.
ChangeMemberCount ==
  /\ Usable /\ FormShown /\ ui.edits < MaxEdits
  /\ \E count \in 1..MaxCount, ids \in [1..MaxCount -> Ids] :
       ui' = [ui EXCEPT
                !.editor[1].memberCount = count,
                !.editor[1].characters =
                  handleMemberCountChange(@, count, ids),
                !.edits = @ + 1]
  /\ UNCHANGED << modelPromise, loadRuns, req, call, ret >>

\* A character's name input.
TypeCharacterName ==
  /\ Usable /\ FormShown /\ ui.edits < MaxEdits
  /\ \E index \in 1..Len(ui.editor[1].characters),
        text \in CharacterNames \cup {""} :
       ui' = [ui EXCEPT
                !.editor[1].characters =
                  updateCharacterStat(@, index, "name", text),
                !.edits = @ + 1]
  /\ UNCHANGED << modelPromise, loadRuns, req, call, ret >>

\* A character's class select.
ChangeClass ==
  /\ Usable /\ FormShown /\ ui.edits < MaxEdits
  /\ \E index \in 1..Len(ui.editor[1].characters), newClass \in ClassChoices :
       ui' = [ui EXCEPT
                !.editor[1].characters =
                  handleCharacterClassChange(@, index, newClass),
                !.edits = @ + 1]
  /\ UNCHANGED << modelPromise, loadRuns, req, call, ret >>

\* A character's number input for an attribute.
TypeStat ==
  /\ Usable /\ FormShown /\ ui.edits < MaxEdits
  /\ \E index \in 1..Len(ui.editor[1].characters),
        field \in StatFields, text \in StatTexts :
       ui' = [ui EXCEPT
                !.editor[1].characters =
                  updateCharacterStat(@, index, field, ParsedOrOne(text)),
                !.edits = @ + 1]
  /\ UNCHANGED << modelPromise, loadRuns, req, call, ret >>

\* saveParty: an alert, or the party is stored and the editor closes.
SaveParty ==
  /\ Usable /\ FormShown
  /\ LET editor == ui.editor[1]
         title == savePartyAlert(editor.partyName, editor.characters)
     IN  ui' = IF title # ""
               THEN [ui EXCEPT !.alertDialog = Alert(title)]
               ELSE [ui EXCEPT
                       !.party = << [name |-> editor.partyName,
                                     members |-> editor.characters] >>,
                       !.editor[1].isCreating = FALSE]
  /\ UNCHANGED << modelPromise, loadRuns, req, call, ret >>

\* "Edit Party" on the saved party's cards.
EditParty ==
  /\ Usable /\ ui.currentSection = "party" /\ ~FormShown
  /\ ui' = [ui EXCEPT !.editor[1].isCreating = TRUE]
  /\ UNCHANGED << modelPromise, loadRuns, req, call, ret >>

\* deleteParty: asks first.
DeleteParty ==
  /\ Usable /\ ui.currentSection = "party" /\ ~FormShown
  /\ ui' = [ui EXCEPT !.alertDialog =
              [isOpen |-> TRUE, title |-> "Delete Party", onConfirm |-> TRUE]]
  /\ UNCHANGED << modelPromise, loadRuns, req, call, ret >>

\* The dialog's OK / Cancel button, or closing it otherwise.
CloseAlert ==
  /\ ui.alertDialog.isOpen
  /\ ui' = [ui EXCEPT !.alertDialog = NoAlert]
  /\ UNCHANGED << modelPromise, loadRuns, req, call, ret >>

\* The dialog's Confirm button: deleteParty's onConfirm, then onClose.
ConfirmAlert ==
  /\ ui.alertDialog.isOpen /\ ui.alertDialog.onConfirm
  /\ ui' = [ui EXCEPT
              !.alertDialog = NoAlert,
              !.party = << >>,
              !.editor = IF @ = << >> THEN @
                         ELSE << [ partyName |-> "", memberCount |-> 1,
                                   characters |-> << >>,
                                   isCreating |-> TRUE ] >>]
  /\ UNCHANGED << modelPromise, loadRuns, req, call, ret >>

\* handleEventSelect: a card of the event list is clicked.
SelectEvent ==
  /\ Usable /\ ui.currentSection = "events" /\ ~AdventureShown
  /\ \E event \in events :
       ui' = IF ui.party = << >> \/ Len(ui.party[1].members) = 0
             THEN [ui EXCEPT !.alertDialog = Alert("Party Required")]
             ELSE [ui EXCEPT
                     !.eventsSection[1].selectedEvent = << event >>,
                     !.eventsSection[1].showAdventure = TRUE,
                     !.adventure = MountAdventure]
  /\ UNCHANGED << modelPromise, loadRuns, req, call, ret >>

\* onBack of AdventureScreen: the screen unmounts.
BackToEvents ==
  /\ Usable /\ AdventureShown
  /\ ui' = [ui EXCEPT !.eventsSection[1].showAdventure = FALSE,
                      !.adventure = << >>,
                      !.fetches = Abandoned(@)]
  /\ UNCHANGED << modelPromise, loadRuns, req, call, ret >>

\* The current-turn select: its items are the party members' names.
SelectTurnCharacter ==
  /\ Usable /\ AdventureShown
  /\ \E i \in 1..Len(ui.party[1].members) :
       ui' = [ui EXCEPT !.adventure[1].currentTurnCharacter =
                ui.party[1].members[i].name]
  /\ UNCHANGED << modelPromise, loadRuns, req, call, ret >>

\* The request handleOptimizeActions builds.
requestBody(party, event, currentTurnCharacter) ==
  [ party |-> party.members,
    encounter |-> [event_type |-> event],
    current_turn_character |-> currentTurnCharacter ]

\* The button as it would be without isAnalyzing in its disabled attribute.
OptimizeEnabledWhileAnalyzing(adventure) ==
  adventure.currentTurnCharacter # ""

\* The "Optimize Actions" button takes the click: it is not disabled.
OptimizeEnabled(adventure) ==
  ~adventure.isAnalyzing /\ adventure.currentTurnCharacter # ""

\* handleOptimizeActions up to its await of fetch.
OptimizeActions ==
  /\ Usable /\ AdventureShown
  /\ OptimizeEnabled(ui.adventure[1])
  /\ ui.party # << >> /\ ui.adventure[1].currentTurnCharacter # ""
  /\ Cardinality(ui.fetches) < MaxFetches
  /\ ui' = [ui EXCEPT
              !.adventure[1].isAnalyzing = TRUE,
              !.adventure[1].analysisResult = << >>,
              !.adventure[1].answered = << >>,
              !.fetches = @ \cup
                { [ body |-> requestBody(ui.party[1],
                               ui.eventsSection[1].selectedEvent[1],
                               ui.adventure[1].currentTurnCharacter),
                    live |-> TRUE ] }]
  /\ UNCHANGED << modelPromise, loadRuns, req, call, ret >>

\* The analysis of a success response: analyzePartyVsEncounter on the body.
ServerAnalysis(body, chance, low, outcome) ==
  LET weighted == getWeightedAnalysis(body.party, body.encounter, chance, low)
      found == currentCharacter(body.party, body.current_turn_character)
  IN  [ party_success_chance |-> chance,
        individual_success_rates |-> weighted.individual_success_rates,
        encounter_difficulty |-> getEncounterDifficulty(body.encounter.event_type),
        strategic_recommendations |-> weighted.strategic_recommendations,
        current_turn_actions |->
          IF found = << >> THEN << >>
          ELSE generateTurnSpecificActions(found[1], body.encounter.event_type,
                                           outcome) ]

\* How the server came to its answer: on the model or on the default, with
\* the generative call answering or failing.
UIModels == {"model", "null"}
UIPrediction == CHOOSE p \in Predictions : \A q \in Predictions : q <= p
UIGenOutcomes ==
  { o \in GenOutcomes : o.kind = "rejects" \/ Len(o.items) = 3 }

\* The response is OK and says success: the result is set (on a mounted
\* screen), then the finally block.
AnalysisArrives ==
  /\ \E f \in ui.fetches, model \in UIModels, outcome \in UIGenOutcomes :
       \E low \in SUBSET HalfwayStats(f.body.party, f.body.encounter.event_type) :
         LET chance == IF model = "null" THEN DefaultChance
                       ELSE Percent(UIPrediction)
             vector == IF model = "null" THEN << >>
                       ELSE prepareDataForModel(f.body.party, f.body.encounter)
         IN  /\ ~getWeightedAnalysisThrows(f.body.party, f.body.encounter)
             /\ ui' = IF f.live
                      THEN [ui EXCEPT
                              !.fetches = @ \ {f},
                              !.adventure[1].analysisResult =
                                << ServerAnalysis(f.body, chance, low, outcome) >>,
                              !.adventure[1].answered =
                                << [request |-> f.body, inputVector |-> vector] >>,
                              !.adventure[1].isAnalyzing = FALSE]
                      ELSE [ui EXCEPT !.fetches = @ \ {f}]
  /\ UNCHANGED << modelPromise, loadRuns, req, call, ret >>

\* fetch rejects, the status is not OK, the body is no JSON or it does not
\* say success: the catch opens the alert, then the finally block.
AnalysisFails ==
  /\ \E f \in ui.fetches :
       ui' = IF f.live
             THEN [ui EXCEPT
                     !.fetches = @ \ {f},
                     !.alertDialog = Alert("Analysis Failed"),
                     !.adventure[1].isAnalyzing = FALSE]
             ELSE [ui EXCEPT
                     !.fetches = @ \ {f},
                     !.alertDialog = Alert("Analysis Failed")]
  /\ UNCHANGED << modelPromise, loadRuns, req, call, ret >>

NextUI ==
  \/ GoToParty
  \/ GoToEvents
  \/ BackToHome
  \/ TypePartyName
  \/ ChangeMemberCount
  \/ TypeCharacterName
  \/ ChangeClass
  \/ TypeStat
  \/ SaveParty
  \/ EditParty
  \/ DeleteParty
  \/ CloseAlert
  \/ ConfirmAlert
  \/ SelectEvent
  \/ BackToEvents
  \/ SelectTurnCharacter
  \/ OptimizeActions
  \/ AnalysisArrives
  \/ AnalysisFails

SpecUI == InitUI /\ [][NextUI]_vars

\* Every fetch settles: it resolves or it rejects.
SpecUILive ==
  InitUI /\ [][NextUI]_vars /\ WF_vars(AnalysisArrives \/ AnalysisFails)

(***************************************************************************)
(* Claims about the serving process (specification Spec).                  *)
(***************************************************************************)
Done(r) == req[r].pc = "done"
Status(r) == req[r].response.status
Succeeded(r) == Done(r) /\ Status(r) = 200
Analysis(r) == req[r].response.body.analysis

\* The body was read and is a JSON value that carries no truthy party, no
\* truthy encounter or no truthy current_turn_character.
LacksRequiredField(r) ==
  \/ req[r].body.kind \in {"null", "scalar"}
  \/ /\ req[r].body.kind = "object"
     /\ \/ req[r].body.party = << >>
        \/ req[r].body.encounter = << >>
        \/ req[r].body.current_turn_character = << >>
        \/ req[r].body.current_turn_character = << "" >>

\* The request passed validation: analyzePartyVsEncounter was called for it.
Analysed(r) == req[r].body.kind = "object" /\ ~LacksRequiredField(r)

\* C1: a request whose JSON body lacks (or has a falsy value for) party,
\* encounter or current_turn_character is answered with status 400 and an
\* error string, carries no analysis, and ran neither the model inference nor
\* the generative service.
C1_MissingFieldIs400 ==
  \A r \in Reqs :
    Done(r) /\ LacksRequiredField(r)
      => /\ Status(r) = 400
         /\ DOMAIN req[r].response.body = {"error"}
         /\ req[r].predictions = 0
         /\ req[r].genCalls = 0

\* C1, the failing input: the JSON body null is answered with the generic 500.
C1_NullBodyIs500 ==
  \E r \in Reqs :
    Done(r) /\ req[r].body.kind = "null" /\ Status(r) = 500

FullAnalysis ==
  {"party_success_chance", "individual_success_rates", "encounter_difficulty",
   "strategic_recommendations", "current_turn_actions"}

\* C2: every finished request has exactly one of two outcomes, the success
\* response with all five analysis fields or an error response of status 400
\* or 500 without analysis; whatever was thrown (while reading the body or
\* during the analysis) gives the fixed generic 500 message; and a request
\* that has not finished has sent nothing.
C2_SuccessOrError ==
  \A r \in Reqs :
    /\ ~Done(r) => req[r].response = NoResponse
    /\ Done(r) =>
         \/ /\ Status(r) = 200
            /\ req[r].thrown = "none"
            /\ DOMAIN req[r].response.body = {"success", "analysis"}
            /\ req[r].response.body.success = TRUE
            /\ DOMAIN Analysis(r) = FullAnalysis
         \/ /\ Status(r) \in {400, 500}
            /\ DOMAIN req[r].response.body = {"error"}
    /\ Done(r) /\ req[r].thrown # "none" =>
         /\ Status(r) = 500
         /\ req[r].response.body =
              [error |-> "Failed to analyze party composition"]

\* C2, the case: an exception after part of the analysis was computed (the
\* success chance is known), answered with the 500 response.
C2_ThrownMidAnalysis ==
  \E r \in Reqs :
    Done(r) /\ req[r].thrown # "none" /\ req[r].finalSuccessChance # -1

\* C3: with the model unavailable, every analysis request returns
\* party_success_chance 50 in a success response and ran no feature
\* extraction and no inference.
C3_UnavailableModelIs50 ==
  \A r \in Reqs :
    Done(r) /\ req[r].model = "null"
      => /\ Status(r) = 200
         /\ Analysis(r).party_success_chance = 50
         /\ req[r].extractions = 0
         /\ req[r].predictions = 0

\* C3, the failing input: the model is unavailable, the party is empty and
\* the encounter is a known one; the request ends in the 500 response.
C3_UnavailableModelEmptyPartyIs500 ==
  \E r \in Reqs :
    /\ Done(r) /\ req[r].model = "null" /\ Status(r) = 500
    /\ Party(req[r]) = << >>
    /\ Encounter(req[r]).event_type \in KnownEvents

\* C4: the loader runs at most once, a resolved modelPromise observed by a
\* request is the one every request observes (all of them the model or all
\* of them null), and a request that observed null works with 50.
C4_OneLoadOneOutcome ==
  /\ loadRuns <= 1
  /\ \A r \in Reqs :
       /\ req[r].model # "unset" => req[r].model = modelPromise
       /\ req[r].model = "null" /\ req[r].finalSuccessChance # -1
            => req[r].finalSuccessChance = 50
  /\ \A r1, r2 \in Reqs :
       req[r1].model # "unset" /\ req[r2].model # "unset"
         => req[r1].model = req[r2].model

\* C4, the case: the load failed, one request has finished on the unavailable
\* outcome and another one, still in flight, has observed it too.
C4_TwoRequestsSeeFailedLoad ==
  \E r1, r2 \in Reqs :
    /\ r1 # r2
    /\ Done(r1) /\ req[r1].model = "null"
    /\ req[r2].pc = "genai" /\ req[r2].model = "null"
    /\ loadRuns = 1

GenFailures == {"rejects", "notJSON", "notArray"}

\* C5: when the generative call of a request fails (it rejects, its text is
\* no JSON, or the parsed value is no array), the request ends in a success
\* response whose current_turn_actions is the fallback list of the current
\* character, which is not empty and holds the Dodge default.
C5_GenFailureFallsBack ==
  \A r \in Reqs :
    Done(r) /\ req[r].genOutcome \in GenFailures
      => /\ Status(r) = 200
         /\ req[r].currentCharacter # << >>
         /\ req[r].currentCharacter[1].name = TurnName(req[r])
         /\ Analysis(r).current_turn_actions =
              fallbackActions(req[r].currentCharacter[1],
                              Encounter(req[r]).event_type)
         /\ Len(Analysis(r).current_turn_actions) >= 1
         /\ \E i \in 1..Len(Analysis(r).current_turn_actions) :
              Analysis(r).current_turn_actions[i]
                = "Default: Take the 'Dodge' action."

\* C5, the case: the generative text was no JSON and the request succeeded.
C5_NotJSONSucceeded ==
  \E r \in Reqs :
    /\ Succeeded(r) /\ req[r].genOutcome = "notJSON"
    /\ Encounter(req[r]).event_type = "Dragon Fight"

\* Some party member has the name sent as current_turn_character.
Named(r) ==
  \E i \in 1..Len(Party(req[r])) : Party(req[r])[i].name = TurnName(req[r])

\* The model inference of the request failed: model.predict threw or
\* prediction.data() rejected.
InferenceFailed(r) ==
  req[r].thrown \in {"Error: model.predict failed",
                     "Error: prediction.data() failed"}

\* C6: an analysis request (one that passed validation and whose inference
\* did not fail) makes exactly one generative call when current_turn_character
\* names a party member, and makes none and returns current_turn_actions = []
\* when it names none; no request makes more than one call.
C6_OneCallIfNamedElseEmpty ==
  \A r \in Reqs :
    /\ req[r].genCalls <= 1
    /\ Done(r) /\ Analysed(r) /\ ~InferenceFailed(r) =>
         IF Named(r)
         THEN req[r].genCalls = 1
         ELSE /\ req[r].genCalls = 0
              /\ Status(r) = 200
              /\ Analysis(r).current_turn_actions = << >>

\* C6, the failing input: the empty party (no member has the name) with a
\* known encounter ends in the 500 response, not in current_turn_actions = [].
C6_EmptyPartyIs500 ==
  \E r \in Reqs :
    /\ Done(r) /\ Analysed(r) /\ ~InferenceFailed(r)
    /\ Party(req[r]) = << >>
    /\ Status(r) = 500
    /\ req[r].genCalls = 0

\* C10: the encounter_difficulty of every success response is decided by the
\* event_type alone.
C10_DifficultyByEventType ==
  \A r \in Reqs :
    Succeeded(r) =>
      Analysis(r).encounter_difficulty =
        ( IF Encounter(req[r]).event_type = "Dragon Fight" THEN "Hard"
          ELSE IF Encounter(req[r]).event_type = "Ancient Trap" THEN "Medium"
          ELSE IF Encounter(req[r]).event_type = "Mystic Puzzle" THEN "Easy"
          ELSE "Unknown" )

\* C10, the case: a success response to an encounter without event_type,
\* computed on the unavailable model after a failed generative call.
C10_MissingEventTypeUnknown ==
  \E r \in Reqs :
    /\ Succeeded(r)
    /\ Encounter(req[r]).event_type = Undefined
    /\ Analysis(r).encounter_difficulty = "Unknown"
    /\ req[r].model = "null"
    /\ req[r].genOutcome = "rejects"

(***************************************************************************)
(* Claims about the pure functions (specification SpecFn).                 *)
(***************************************************************************)
Rates == ret.analysis.individual_success_rates
Scored == ret.fn = "getWeightedAnalysis" /\ ~ret.threw

\* C7: every success_rate that getWeightedAnalysis returns is an integer from
\* 15 to 95, whatever the attribute values (all zero, very large).
C7_RateWithin15And95 ==
  Scored =>
    /\ Len(Rates) = Len(call.party)
    /\ \A i \in 1..Len(Rates) :
         /\ Rates[i].success_rate \in Int
         /\ Rates[i].success_rate >= 15
         /\ Rates[i].success_rate <= 95

\* C7, the case: a character whose six attributes are all very large is
\* scored 95, next to party members scored below it.
C7_LargeAttributesScore95 ==
  /\ Scored
  /\ Len(call.party) = MaxMembers
  /\ Stats(call.party[1])
       = << AttrMax, AttrMax, AttrMax, AttrMax, AttrMax, AttrMax >>
  /\ Rates[1].success_rate = 95
  /\ Rates[2].success_rate < 95

\* The value of an attribute, an absent one counted as 0.
AttrOrZero(character, stat) ==
  IF stat \in DOMAIN character THEN character[stat] ELSE 0

\* W in tenths: the six attributes, each times its encounter weight.
ClaimW(character, eventType) ==
  AttrOrZero(character, "strength") * getStatWeights(eventType).strength
  + AttrOrZero(character, "agility") * getStatWeights(eventType).agility
  + AttrOrZero(character, "health") * getStatWeights(eventType).health
  + AttrOrZero(character, "mana") * getStatWeights(eventType).mana
  + AttrOrZero(character, "dexterity") * getStatWeights(eventType).dexterity
  + AttrOrZero(character, "wisdom") * getStatWeights(eventType).wisdom

\* T in tenths: the six weights of the profile.
ClaimT(eventType) ==
  getStatWeights(eventType).strength + getStatWeights(eventType).agility
  + getStatWeights(eventType).health + getStatWeights(eventType).mana
  + getStatWeights(eventType).dexterity + getStatWeights(eventType).wisdom

\* m in hundredths.
ClaimM(eventType) ==
  IF eventType = "Dragon Fight" THEN 85
  ELSE IF eventType = "Ancient Trap" THEN 90
  ELSE IF eventType = "Mystic Puzzle" THEN 100
  ELSE 95

\* clamp(20 + (W / (T * 15)) * 75 * m, 15, 95) as a fraction: the numerator
\* over the denominator ClaimT * 15 * 100.
ClaimDen(eventType) == ClaimT(eventType) * 15 * 100
ClaimNum(character, eventType) ==
  LET unclamped == 20 * ClaimDen(eventType)
                     + ClaimW(character, eventType) * 75 * ClaimM(eventType)
  IN  IF unclamped < 15 * ClaimDen(eventType) THEN 15 * ClaimDen(eventType)
      ELSE IF unclamped > 95 * ClaimDen(eventType) THEN 95 * ClaimDen(eventType)
      ELSE unclamped

\* C8: every success_rate is clamp(20 + (W / (T * 15)) * 75 * m, 15, 95)
\* rounded to a nearest integer (it is within one half of the clamped value),
\* with W the weighted sum of the six attributes (absent ones 0), T the sum
\* of the profile's six weights, m = 0.85 / 0.90 / 1.00 / 0.95 by event type,
\* the three known profiles different from each other and every other event
\* type weighted 1.0 throughout.
C8_RateIsRoundedClampedFormula ==
  Scored =>
    /\ \A i \in 1..Len(Rates) :
         LET num == ClaimNum(call.party[i], call.encounter.event_type)
             den == ClaimDen(call.encounter.event_type)
             rate == Rates[i].success_rate
         IN  /\ 2 * (rate * den - num) <= den
             /\ 2 * (num - rate * den) <= den
    /\ call.encounter.event_type \notin KnownEvents
         => \A stat \in StatNames :
              getStatWeights(call.encounter.event_type)[stat] = 10
    /\ \A e1, e2 \in KnownEvents :
         e1 # e2 => getStatWeights(e1) # getStatWeights(e2)

\* C8, the case: an Ancient Trap character without mana, dexterity and wisdom
\* whose clamped value 51.5 lies halfway between two integers and is scored
\* 51, in a party whose other member is scored off the clamp bounds.
C8_HalfwayTrapRate ==
  /\ Scored
  /\ call.encounter.event_type = "Ancient Trap"
  /\ Len(call.party) = MaxMembers
  /\ DOMAIN call.party[1] \cap OptionalStats = {}
  /\ 2 * ClaimNum(call.party[1], "Ancient Trap") = 103 * ClaimDen("Ancient Trap")
  /\ Rates[1].success_rate = 51
  /\ Rates[2].success_rate > 20
  /\ Rates[2].success_rate < 95

RECURSIVE TotalFrom(_, _, _)
\* The total of an attribute over the members i, i+1, ... of the party.
TotalFrom(party, stat, i) ==
  IF i > Len(party) THEN 0
  ELSE AttrOrZero(party[i], stat) + TotalFrom(party, stat, i + 1)

Members(party, tag) ==
  Cardinality({ i \in 1..Len(party) : party[i].type = tag })

\* C9: prepareDataForModel returns exactly 14 values, in the order party
\* size, total strength, health, agility, mana, dexterity, wisdom, count of
\* Mage, Barbarian, Rogue, Bandit, isDragonFight, isAncientTrap,
\* isMysticPuzzle; absent attributes count as 0, at most one flag is 1 (none
\* for an unknown type), and the empty party gives 0 in the first eleven.
C9_FourteenFeaturesInOrder ==
  ret.fn = "prepareDataForModel" =>
    LET v == ret.vector
        party == call.party
        eventType == call.encounter.event_type
    IN  /\ Len(v) = 14
        /\ v[1] = Len(party)
        /\ v[2] = TotalFrom(party, "strength", 1)
        /\ v[3] = TotalFrom(party, "health", 1)
        /\ v[4] = TotalFrom(party, "agility", 1)
        /\ v[5] = TotalFrom(party, "mana", 1)
        /\ v[6] = TotalFrom(party, "dexterity", 1)
        /\ v[7] = TotalFrom(party, "wisdom", 1)
        /\ v[8] = Members(party, "Mage")
        /\ v[9] = Members(party, "Barbarian")
        /\ v[10] = Members(party, "Rogue")
        /\ v[11] = Members(party, "Bandit")
        /\ v[12] = (IF eventType = "Dragon Fight" THEN 1 ELSE 0)
        /\ v[13] = (IF eventType = "Ancient Trap" THEN 1 ELSE 0)
        /\ v[14] = (IF eventType = "Mystic Puzzle" THEN 1 ELSE 0)
        /\ v[12] + v[13] + v[14] <= 1
        /\ eventType \notin KnownEvents => v[12] + v[13] + v[14] = 0
        /\ party = << >> => \A k \in 1..11 : v[k] = 0

\* C9, the case: the features of a full party whose first member has no mana
\* key and whose agility and health totals differ, for a known encounter.
C9_FeaturesOfMixedParty ==
  /\ ret.fn = "prepareDataForModel"
  /\ Len(call.party) = MaxMembers
  /\ "mana" \notin DOMAIN call.party[1]
  /\ "wisdom" \in DOMAIN call.party[1]
  /\ ret.vector[3] # ret.vector[4]
  /\ ret.vector[13] = 1

(***************************************************************************)
(* Claims about the recommendations, the actions and the tensors.          *)
(***************************************************************************)
ChallengingText ==
  "This is a highly challenging encounter. Survival should be the top priority; focus on defensive abilities and healing."
AdvantageText ==
  "Your party has a clear advantage. A coordinated, aggressive strategy should secure a swift victory."
BalancedText ==
  "The odds are balanced. A smart, tactical approach combining offense and defense is crucial for success."

\* C11: the first entry of strategic_recommendations of a success response is
\* decided by party_success_chance p alone: the challenging text for p < 40,
\* the advantage text for p > 75, the balanced text for every other p (40,
\* 75 and the default 50 among them).
C11_TierByChanceAlone ==
  \A r \in Reqs :
    Succeeded(r) =>
      LET p == Analysis(r).party_success_chance
          first == Analysis(r).strategic_recommendations[1]
      IN  /\ Len(Analysis(r).strategic_recommendations) >= 1
          /\ p < 40 => first = ChallengingText
          /\ p > 75 => first = AdvantageText
          /\ p >= 40 /\ p <= 75 => first = BalancedText

\* C11, the case: one success response at exactly 40 and another at exactly
\* 75, both with the balanced text.
C11_BalancedAt40And75 ==
  \E r1, r2 \in Reqs :
    /\ Succeeded(r1) /\ Succeeded(r2)
    /\ Analysis(r1).party_success_chance = 40
    /\ Analysis(r2).party_success_chance = 75
    /\ Analysis(r1).strategic_recommendations[1] = BalancedText
    /\ Analysis(r2).strategic_recommendations[1] = BalancedText

Recs == ret.analysis.strategic_recommendations

\* The call scored a party with members for a known encounter.
ScoredKnown ==
  Scored /\ call.party # << >> /\ call.encounter.event_type \in KnownEvents

\* The attributes an encounter's two lines go by.
FirstStat(eventType) ==
  IF eventType = "Dragon Fight" THEN "health"
  ELSE IF eventType = "Ancient Trap" THEN "dexterity"
  ELSE "wisdom"
SecondStat(eventType) ==
  IF eventType = "Dragon Fight" THEN "strength"
  ELSE IF eventType = "Ancient Trap" THEN "wisdom"
  ELSE "mana"

\* The position of the party's best member by an attribute: the first of
\* those with the highest value.
FirstBest(party, stat) ==
  CHOOSE i \in 1..Len(party) :
    /\ \A j \in 1..Len(party) : AttrOrZero(party[j], stat) <= AttrOrZero(party[i], stat)
    /\ \A j \in 1..(i - 1) : AttrOrZero(party[j], stat) < AttrOrZero(party[i], stat)

FirstLine(eventType, name) ==
  IF eventType = "Dragon Fight"
  THEN "Let " \o name \o " draw the dragon's attention while others attack from the flanks."
  ELSE IF eventType = "Ancient Trap"
  THEN name \o " should take the lead to scout for and disarm any traps."
  ELSE "The party should rely on " \o name \o "'s wisdom to solve the core puzzle."
SecondLine(eventType, name) ==
  IF eventType = "Dragon Fight"
  THEN name \o " should focus on dealing maximum physical damage."
  ELSE IF eventType = "Ancient Trap"
  THEN name \o " can assist by spotting the trap mechanisms from a distance."
  ELSE name \o " could use their mana to reveal hidden clues or magical auras."

\* C12: for a party with members and a known encounter the recommendations
\* are the tier comment, then the line naming the best member by the first
\* attribute of the encounter, then at most one line naming the best member
\* by the second attribute; the second line is left out whenever it would
\* name the same individual (the same party member) as the first.
C12_SecondLineSkippedForSameMember ==
  ScoredKnown =>
    LET eventType == call.encounter.event_type
        b1 == FirstBest(call.party, FirstStat(eventType))
        b2 == FirstBest(call.party, SecondStat(eventType))
    IN  /\ Len(Recs) \in {2, 3}
        /\ Recs[1] \in {ChallengingText, AdvantageText, BalancedText}
        /\ Recs[2] = FirstLine(eventType, call.party[b1].name)
        /\ b1 = b2 => Len(Recs) = 2
        /\ Len(Recs) = 3 => Recs[3] = SecondLine(eventType, call.party[b2].name)

\* C12, the failing input: a Dragon Fight party of one member, whose two
\* encounter lines both name that member.
C12_DragonFightNamesMemberTwice ==
  /\ ScoredKnown
  /\ call.encounter.event_type = "Dragon Fight"
  /\ Len(call.party) = 1
  /\ Len(Recs) = 3
  /\ Recs[2] = FirstLine("Dragon Fight", call.party[1].name)
  /\ Recs[3] = SecondLine("Dragon Fight", call.party[1].name)

\* C13: the member named in an encounter line is the first in list order of
\* the members with the highest value of the line's attribute.
C13_TieNamesFirstInListOrder ==
  ScoredKnown =>
    LET eventType == call.encounter.event_type
        first == FirstBest(call.party, FirstStat(eventType))
        second == FirstBest(call.party, SecondStat(eventType))
    IN  /\ Len(Recs) >= 2
        /\ Recs[2] = FirstLine(eventType, call.party[first].name)
        /\ \A k \in 3..Len(Recs) :
             Recs[k] = SecondLine(eventType, call.party[second].name)

\* C13, the case: a Mystic Puzzle party of two members of different names
\* tied on a positive wisdom, the first of them named.
C13_WisdomTieNamesFirst ==
  /\ ScoredKnown
  /\ call.encounter.event_type = "Mystic Puzzle"
  /\ Len(call.party) = 2
  /\ call.party[1].name # call.party[2].name
  /\ AttrOrZero(call.party[1], "wisdom") = AttrOrZero(call.party[2], "wisdom")
  /\ AttrOrZero(call.party[1], "wisdom") > 0
  /\ Recs[2] = FirstLine("Mystic Puzzle", call.party[1].name)

\* The decision table: the rows of an encounter type in order, each an
\* attribute, the value it must exceed and the action; then the default.
ActionTable(eventType) ==
  IF eventType = "Dragon Fight"
  THEN << << "strength", 15, "Power Attack" >>,
          << "mana", 15, "Cast Fireball" >>,
          << "agility", 15, "Dodge and Weave" >>,
          << "", 0, "Defensive Stance" >> >>
  ELSE IF eventType = "Ancient Trap"
  THEN << << "dexterity", 15, "Disarm Trap" >>,
          << "wisdom", 15, "Analyze Mechanism" >>,
          << "agility", 15, "Evade Pressure Plate" >>,
          << "", 0, "Provide Lookout" >> >>
  ELSE IF eventType = "Mystic Puzzle"
  THEN << << "wisdom", 15, "Decipher Runes" >>,
          << "mana", 15, "Channel Insight" >>,
          << "dexterity", 10, "Manipulate Artifact" >>,
          << "", 0, "Observe Patterns" >> >>
  ELSE << << "", 0, "Take Action" >> >>

\* The row of the table that decides for a character: the first one whose
\* attribute exceeds its threshold, the default row if none does.
DecidingRow(character, eventType) ==
  LET table == ActionTable(eventType)
      hits == { k \in 1..(Len(table) - 1) :
                  AttrOrZero(character, table[k][1]) > table[k][2] }
  IN  IF hits = {} THEN Len(table)
      ELSE CHOOSE k \in hits : \A j \in hits : k <= j

\* C14: the recommended_action of every character is the action of the first
\* row of its encounter's table whose attribute strictly exceeds the
\* threshold, the table's default when none does, "Take Action" for an
\* unknown type; a Dragon Fight strength above 15 gives "Power Attack"
\* whatever the other attributes are, a value equal to a threshold does not
\* qualify.
C14_FirstMatchDecisionTable ==
  Scored =>
    \A i \in 1..Len(Rates) :
      LET character == call.party[i]
          eventType == call.encounter.event_type
      IN  /\ Rates[i].recommended_action =
               ActionTable(eventType)[DecidingRow(character, eventType)][3]
          /\ eventType = "Dragon Fight" /\ character.strength > 15
               => Rates[i].recommended_action = "Power Attack"
          /\ eventType = "Dragon Fight" /\ character.strength = 15
               => Rates[i].recommended_action # "Power Attack"
          /\ eventType \notin KnownEvents
               => Rates[i].recommended_action = "Take Action"

\* C14, the case: in a Dragon Fight a member with strength exactly 15 and
\* agility 20 gets "Dodge and Weave", next to a member with strength above 15
\* and mana above 15 who gets "Power Attack".
C14_StrengthAtThreshold ==
  /\ Scored
  /\ call.encounter.event_type = "Dragon Fight"
  /\ Len(call.party) = 2
  /\ call.party[2].strength = 15
  /\ Rates[2].recommended_action = "Dodge and Weave"
  /\ call.party[1].strength > 15
  /\ AttrOrZero(call.party[1], "mana") > 15
  /\ Rates[1].recommended_action = "Power Attack"

\* The getTFJSAnalysis call of the request has ended: the request went on
\* to the rest of the analysis or has been answered after validation.
InferenceEnded(r) ==
  \/ req[r].pc = "genai"
  \/ Done(r) /\ Analysed(r)

\* C15: when the getTFJSAnalysis call of a request has ended, on whatever
\* path (return, model.predict throwing, prediction.data() rejecting), no
\* tensor created for it is still undisposed.
C15_TensorsDisposedOnEveryPath ==
  \A r \in Reqs : InferenceEnded(r) => req[r].tensors = {}

\* C15, the failing inputs: model.predict threw and the input tensor is left,
\* and prediction.data() rejected and both tensors are left.
C15_TensorsLeftAfterFailure ==
  \E r1, r2 \in Reqs :
    /\ Done(r1) /\ req[r1].thrown = "Error: model.predict failed"
    /\ req[r1].tensors = {"inputTensor"}
    /\ Done(r2) /\ req[r2].thrown = "Error: prediction.data() failed"
    /\ req[r2].tensors = {"inputTensor", "prediction"}

\* C16: the extractor of the training script and the extractor of the
\* serving route return the same 14 values for every party and encounter:
\* what either returned is what the other returns for that input.
C16_TrainingAndServingFeaturesAgree ==
  /\ ret.fn = "prepareDataForModel"
       => /\ Len(ret.vector) = 14
          /\ ret.vector = prepareDataForModelTraining(call.party, call.encounter)
  /\ ret.fn = "prepareDataForModel (training)"
       => /\ Len(ret.vector) = 14
          /\ ret.vector = prepareDataForModel(call.party, call.encounter)

\* C16, the case: the training extractor returned the features of a full
\* party with an absent attribute whose mana and dexterity totals differ.
C16_TrainingFeaturesOfMixedParty ==
  /\ ret.fn = "prepareDataForModel (training)"
  /\ Len(call.party) = MaxMembers
  /\ "dexterity" \notin DOMAIN call.party[1]
  /\ ret.vector[5] # ret.vector[6]
  /\ ret.vector[5] > 0
  /\ ret.vector[12] = 1

\* The request fell back: its generative call was made and failed.
FellBack(r) == Done(r) /\ req[r].genOutcome \in GenFailures

\* The position in the party of the current-turn character of the request.
TurnIndex(r) ==
  CHOOSE i \in 1..Len(Party(req[r])) :
    /\ Party(req[r])[i].name = TurnName(req[r])
    /\ \A j \in 1..(i - 1) : Party(req[r])[j].name # TurnName(req[r])

\* C17: the fallback list has 2 or 3 items: first "Primary: " with the
\* recommended action of the character, last the "Dodge" default, and between
\* them one alternative for Dragon Fight and for Ancient Trap and nothing
\* otherwise; two fallback lists for the same character and event type are
\* the same list.
C17_FallbackListShape ==
  /\ \A r \in Reqs :
       FellBack(r) =>
         LET list == Analysis(r).current_turn_actions
             eventType == Encounter(req[r]).event_type
             action == Analysis(r).individual_success_rates[TurnIndex(r)]
                         .recommended_action
         IN  /\ Len(list) \in {2, 3}
             /\ list[1] = "Primary: " \o action
             /\ list[Len(list)] = "Default: Take the 'Dodge' action."
             /\ eventType = "Dragon Fight"
                  => Len(list) = 3
                     /\ list[2] = "Alternative: Use a defensive maneuver."
             /\ eventType = "Ancient Trap"
                  => Len(list) = 3
                     /\ list[2] = "Alternative: Search the area for triggers."
             /\ eventType \notin {"Dragon Fight", "Ancient Trap"}
                  => Len(list) = 2
  /\ \A r1, r2 \in Reqs :
       /\ FellBack(r1) /\ FellBack(r2)
       /\ req[r1].currentCharacter = req[r2].currentCharacter
       /\ Encounter(req[r1]).event_type = Encounter(req[r2]).event_type
       => Analysis(r1).current_turn_actions = Analysis(r2).current_turn_actions

\* C17, the case: two requests for the same character fell back after
\* different failures of the generative call, one for a Mystic Puzzle
\* (2 items) and one for an Ancient Trap (3 items).
C17_FallbackOfTwoAndThree ==
  \E r1, r2 \in Reqs :
    /\ FellBack(r1) /\ FellBack(r2)
    /\ req[r1].currentCharacter = req[r2].currentCharacter
    /\ Encounter(req[r1]).event_type = "Mystic Puzzle"
    /\ Encounter(req[r2]).event_type = "Ancient Trap"
    /\ Len(Analysis(r1).current_turn_actions) = 2
    /\ Len(Analysis(r2).current_turn_actions) = 3
    /\ req[r1].genOutcome # req[r2].genOutcome

\* C18: whenever the current-turn character is found in the party, the
\* current_turn_actions of the success response has at most 3 items,
\* whatever the generative service returned.
C18_AtMostThreeActions ==
  \A r \in Reqs :
    Succeeded(r) /\ req[r].currentCharacter # << >>
      => Len(Analysis(r).current_turn_actions) <= 3

\* C18, the failing input: the generative text parsed to an array of four
\* strings, and the success response carries all four.
C18_FourActionsReturned ==
  \E r \in Reqs :
    /\ Succeeded(r) /\ req[r].currentCharacter # << >>
    /\ req[r].genOutcome = "array"
    /\ Analysis(r).current_turn_actions = << "one", "two", "three", "four" >>

\* C19: no load of the model is started before the first analysis request is
\* received: whenever the loader has been started, some request has been
\* received.
C19_NoLoadBeforeFirstRequest ==
  loadRuns >= 1 => \E r \in Reqs : req[r].pc # "idle"

\* C19, the failing input: the route module has been evaluated, the load has
\* been started (and has even finished) and no request has been received.
C19_LoadedWithNoRequest ==
  /\ loadRuns = 1
  /\ modelPromise = "model"
  /\ \A r \in Reqs : req[r] = IdleRequest

\* C20: the individual_success_rates that getWeightedAnalysis returns for a
\* party and an encounter are the same for every aggregate success
\* percentage passed to it: what it returned is what it returns for each of
\* the percentages, the fallback 50 among them.
C20_RatesIndependentOfChance ==
  Scored =>
    \A chance \in ChanceVals \cup {DefaultChance} :
      Rates = getWeightedAnalysis(call.party, call.encounter, chance, call.low)
                .individual_success_rates

\* C20, the case: a call with a percentage below 40 (the challenging text)
\* returned, for a full party, the rates of the call with the fallback 50.
C20_RatesOfLowChanceCall ==
  /\ Scored
  /\ Len(call.party) = MaxMembers
  /\ Recs[1] = ChallengingText
  /\ Rates = getWeightedAnalysis(call.party, call.encounter, DefaultChance, call.low)
               .individual_success_rates
  /\ Rates[1].success_rate > 20
  /\ Rates[1].success_rate < 95

(***************************************************************************)
(* Claims about member order and the empty party.                          *)
(***************************************************************************)
\* The rearrangements of a list of n members.
Perms(n) ==
  { p \in [1..n -> 1..n] : \A i, j \in 1..n : p[i] = p[j] => i = j }

Permuted(party, p) == [ i \in 1..Len(party) |-> party[p[i]] ]

\* C21: member order does not matter to scoring: for every rearrangement of
\* the party the feature vector is the one returned, and the
\* individual_success_rates are the ones returned, rearranged the same way
\* (each character keeps its success_rate and recommended_action).
C21_ScoringIgnoresMemberOrder ==
  \A p \in Perms(Len(call.party)) :
    /\ ret.fn = "prepareDataForModel"
         => prepareDataForModel(Permuted(call.party, p), call.encounter)
              = ret.vector
    /\ Scored
         => getWeightedAnalysis(Permuted(call.party, p), call.encounter,
                                DefaultChance, call.low)
              .individual_success_rates
              = [ i \in 1..Len(Rates) |-> Rates[p[i]] ]

\* C21, the case: the features of a party of two members that differ in
\* strength and in class.
C21_FeaturesOfTwoDifferentMembers ==
  /\ ret.fn = "prepareDataForModel"
  /\ Len(call.party) = 2
  /\ call.party[1].strength # call.party[2].strength
  /\ call.party[1].type # call.party[2].type
  /\ ret.vector[2] = call.party[1].strength + call.party[2].strength
  /\ ret.vector[2] # 2 * call.party[2].strength

\* C27: every request that passed validation (and whose inference did not
\* fail) ends in the success response, the one with the empty party too.
C27_ValidatedRequestSucceeds ==
  \A r \in Reqs :
    Done(r) /\ Analysed(r) /\ ~InferenceFailed(r) => Status(r) = 200

\* C27, the failing input: the empty party with a known encounter, scored by
\* the loaded model, ends in the 500 response because findBest threw.
C27_EmptyPartyReduceThrows ==
  \E r \in Reqs :
    /\ Done(r) /\ Analysed(r)
    /\ Party(req[r]) = << >>
    /\ Encounter(req[r]).event_type = "Mystic Puzzle"
    /\ req[r].model = "model"
    /\ req[r].finalSuccessChance = 75
    /\ req[r].thrown = "TypeError: Reduce of empty array with no initial value"
    /\ Status(r) = 500

(***************************************************************************)
(* Claims about the browser page (specifications SpecUI and SpecUILive).   *)
(***************************************************************************)
\* The fetch of the mounted adventure screen that is in flight, if any.
LiveFetches == { f \in ui.fetches : f.live }

\* C22: whenever a request of handleOptimizeActions is in flight from the
\* adventure screen, the saved party is not null, its name is not blank, it
\* has a member, the party sent is its member list, and the
\* current_turn_character sent is the name of one of its members; every
\* request ever sent carries a member list with a member of that name.
C22_RequestFromSavedPartyMember ==
  /\ \A f \in LiveFetches :
       /\ ui.party # << >>
       /\ trim(ui.party[1].name) # ""
       /\ Len(ui.party[1].members) >= 1
       /\ f.body.party = ui.party[1].members
       /\ \E i \in 1..Len(ui.party[1].members) :
            ui.party[1].members[i].name = f.body.current_turn_character
  /\ \A f \in ui.fetches :
       \E i \in 1..Len(f.body.party) :
         f.body.party[i].name = f.body.current_turn_character

\* C22, the case: a request is in flight for the second member of a saved
\* party of two.
C22_RequestForSecondMember ==
  \E f \in LiveFetches :
    /\ Len(ui.party[1].members) = 2
    /\ f.body.current_turn_character = ui.party[1].members[2].name
    /\ ui.party[1].members[1].name # ui.party[1].members[2].name
    /\ ui.adventure[1].isAnalyzing

SixStats ==
  {"strength", "agility", "mana", "dexterity", "wisdom", "health"}

\* C23: every character of the stored party has all six attributes
\* non-negative.
C23_StoredAttributesNonNegative ==
  ui.party # << >> =>
    \A i \in 1..Len(ui.party[1].members) :
      \A stat \in SixStats : ui.party[1].members[i][stat] >= 0

\* C23, the failing input: "-5" typed into a number input, the party saved.
C23_StoredNegativeStrength ==
  /\ ui.party # << >>
  /\ Len(ui.party[1].members) >= 1
  /\ ui.party[1].members[1].strength = -5
  /\ ui.party[1].members[1].name = "Thane"

\* The points a character has spent.
PointsOf(character) ==
  character.strength + character.agility + character.mana
    + character.dexterity + character.wisdom + character.health

\* The editor holds something saveParty refuses: a blank party name, a blank
\* character name or a character over 80 points.
Unsavable ==
  \/ trim(ui.editor[1].partyName) = ""
  \/ \E i \in 1..Len(ui.editor[1].characters) :
       \/ trim(ui.editor[1].characters[i].name) = ""
       \/ PointsOf(ui.editor[1].characters[i]) > 80

\* C24: every member of the stored party has at most 80 points, and a
\* saveParty attempt on a blank party name, a blank character name or a
\* character over 80 points leaves the stored party as it is, keeps the
\* editor form open and opens an alert.
C24_PointCapEnforcedAtSave ==
  /\ [](ui.party # << >> =>
          \A i \in 1..Len(ui.party[1].members) :
            PointsOf(ui.party[1].members[i]) <= 80)
  /\ [][ SaveParty /\ Unsavable =>
           /\ ui'.party = ui.party
           /\ ui'.editor = ui.editor
           /\ ui'.currentSection = "party"
           /\ ui'.alertDialog.isOpen
           /\ ui'.alertDialog.title \in
                {"Party Name Required", "Character Name Required",
                 "Invalid Point Allocation"} ]_vars

\* C24, the case: a party is stored, its editor holds a named character of
\* 101 points, and saveParty has answered with the point alert.
C24_OverCapSaveRefused ==
  /\ ui.currentSection = "party"
  /\ ui.party # << >>
  /\ ui.editor[1].isCreating
  /\ ui.alertDialog = Alert("Invalid Point Allocation")
  /\ \E i \in 1..Len(ui.editor[1].characters) :
       PointsOf(ui.editor[1].characters[i]) = 101
  /\ ui.editor[1].characters # ui.party[1].members

\* The base attributes the class cards show for the classes the select offers
\* here.
BaseOfBarbarian ==
  [strength |-> 25, agility |-> 10, mana |-> 5,
   dexterity |-> 10, wisdom |-> 5, health |-> 25]
BaseOfRogue ==
  [strength |-> 10, agility |-> 25, mana |-> 5,
   dexterity |-> 25, wisdom |-> 10, health |-> 5]

\* The character is of the class and has exactly its base attributes.
FreshOf(character, className, base) ==
  /\ character.class = className
  /\ \A stat \in SixStats : character[stat] = base[stat]

\* C25: a class change of one character sets its class to the new class and
\* its six attributes to that class's base attributes, whatever they were,
\* keeps its id and name, and changes no other character.
C25_ClassChangeResetsAttributes ==
  [][ ChangeClass =>
      \A index \in 1..Len(ui.editor[1].characters), newClass \in ClassChoices :
        ui'.editor[1].characters =
          handleCharacterClassChange(ui.editor[1].characters,
                                     index, newClass) =>
          /\ Len(ui'.editor[1].characters) = Len(ui.editor[1].characters)
          /\ FreshOf(ui'.editor[1].characters[index], newClass,
                     IF newClass = "Barbarian" THEN BaseOfBarbarian
                                               ELSE BaseOfRogue)
          /\ ui'.editor[1].characters[index].id =
               ui.editor[1].characters[index].id
          /\ ui'.editor[1].characters[index].name =
               ui.editor[1].characters[index].name
          /\ \A other \in 1..Len(ui.editor[1].characters) :
               other # index =>
                 ui'.editor[1].characters[other] =
                   ui.editor[1].characters[other] ]_vars

\* C25, the case: the first character, named, has been made a Rogue and has
\* the Rogue's attributes, beside a second character whose edited strength
\* is kept.
C25_RogueBesideEditedCharacter ==
  /\ ui.editor # << >>
  /\ Len(ui.editor[1].characters) = 2
  /\ FreshOf(ui.editor[1].characters[1], "Rogue", BaseOfRogue)
  /\ ui.editor[1].characters[1].name = "Thane"
  /\ ui.editor[1].characters[2].class = "Mage"
  /\ ui.editor[1].characters[2].strength = 26

\* The members of the party whose class, as the page names it, is the given
\* one.
MembersOfClass(party, className) ==
  Cardinality({ i \in 1..Len(party) : party[i].class = className })

\* C26: for a request the page built and the server scored on the model,
\* features 8..11 of the vector are the numbers of Mages, Barbarians, Rogues
\* and Bandits among the members.
C26_ClassCountsMatchMembers ==
  ( /\ ui.adventure # << >>
    /\ ui.adventure[1].answered # << >>
    /\ ui.adventure[1].answered[1].inputVector # << >> ) =>
    LET sent == ui.adventure[1].answered[1].request.party
        vector == ui.adventure[1].answered[1].inputVector
    IN  /\ vector[8] = MembersOfClass(sent, "Mage")
        /\ vector[9] = MembersOfClass(sent, "Barbarian")
        /\ vector[10] = MembersOfClass(sent, "Rogue")
        /\ vector[11] = MembersOfClass(sent, "Bandit")

\* C26, the failing input: a party of one Mage was scored on the model with
\* a Mage count of 0.
C26_MageCountedAsNone ==
  /\ ui.adventure # << >>
  /\ ui.adventure[1].answered # << >>
  /\ ui.adventure[1].answered[1].inputVector # << >>
  /\ Len(ui.adventure[1].answered[1].request.party) = 1
  /\ ui.adventure[1].answered[1].request.party[1].class = "Mage"
  /\ ui.adventure[1].answered[1].inputVector[8] = 0

\* C28: the character the "Actions for ..." heading names is the one sent as
\* current_turn_character in the request whose current_turn_actions are
\* shown.
C28_HeadingNamesRequestedCharacter ==
  ( /\ ui.adventure # << >>
    /\ ui.adventure[1].analysisResult # << >> ) =>
    ui.adventure[1].currentTurnCharacter =
      ui.adventure[1].answered[1].request.current_turn_character

\* C28, the failing input: Thane's actions are shown under the heading
\* "Actions for Bran".
C28_ActionsUnderAnotherName ==
  /\ ui.adventure # << >>
  /\ ui.adventure[1].analysisResult # << >>
  /\ ui.adventure[1].analysisResult[1].current_turn_actions # << >>
  /\ ui.adventure[1].answered[1].request.current_turn_character = "Thane"
  /\ ui.adventure[1].currentTurnCharacter = "Bran"

\* C30: whenever the editor is mounted its memberCount is the number of
\* character entries, and a stored party has at least one member.
C30_MemberCountIsNumberOfCharacters ==
  /\ ui.editor # << >> =>
       ui.editor[1].memberCount = Len(ui.editor[1].characters)
  /\ ui.party # << >> => Len(ui.party[1].members) >= 1

\* C30, the failing input: a party stored without members.
C30_PartyStoredWithoutMembers ==
  /\ ui.party # << >>
  /\ ui.party[1].name = "Heroes"
  /\ ui.party[1].members = << >>

\* The adventure screen is mounted and its request is in flight.
Analyzing == ui.adventure # << >> /\ ui.adventure[1].isAnalyzing

====
